---------------------------- MODULE Spec2Model ----------------------------
(***************************************************************************)
(* Model of the date-planner API: the shared-secret authorization          *)
(* predicates (utils/auth_utils.ts), the itinerary and suggestion route    *)
(* handlers (pages/api/...), and the persistence service they call.        *)
(*                                                                         *)
(* JavaScript values: a secret or header is a TLA+ string, with Undef      *)
(* standing for `undefined`; a status token is a sequence of one-character *)
(* strings so that toUpperCase / toLowerCase / charAt / slice are computed *)
(* character by character.                                                 *)
(***************************************************************************)
EXTENDS Integers, Sequences, FiniteSets, TLC

VARIABLES env, check, norm, places, nextPlaceId, suggestions, nextSuggestionId, last,
          call, session, panel

\* the state of the browser client
clientVars == <<call, session, panel>>

vars == <<env, check, norm, places, nextPlaceId, suggestions, nextSuggestionId, last,
          clientVars>>

-----------------------------------------------------------------------------
(* JavaScript values *)

Undef == "<undefined>"

\* JavaScript falsiness of a string-or-undefined value: `!v`
Falsy(v) == v = Undef \/ v = ""

-----------------------------------------------------------------------------
(* Process configuration: the four environment variables the code reads *)

EnvValues == {Undef, "", "A", "T"}

EnvConfigs ==
    [NEXT_PUBLIC_ADMIN_SECRET : EnvValues, NEXT_PUBLIC_TRUSTED_SECRET : EnvValues,
     ADMIN_SECRET_KEY : EnvValues, TRUSTED_USER_KEY : EnvValues]

EnvConfig(npa, npt, ask, tuk) ==
    [NEXT_PUBLIC_ADMIN_SECRET |-> npa, NEXT_PUBLIC_TRUSTED_SECRET |-> npt,
     ADMIN_SECRET_KEY |-> ask, TRUSTED_USER_KEY |-> tuk]

\* deployments the route handlers run under: every variable set, only the
\* NEXT_PUBLIC_* pair the client reads, only the *_KEY pair, none
ServerEnvConfigs ==
    {EnvConfig("A", "T", "A", "T"), EnvConfig("A", "T", Undef, Undef),
     EnvConfig(Undef, Undef, "A", "T"), EnvConfig(Undef, Undef, Undef, Undef)}

\* x-auth-secret header values a request may carry (Undef: header absent)
Headers == {Undef, "", "A", "T", "X"}

\* header values of the requests sent to the route handlers
ServerHeaders == {Undef, "A", "T", "X"}

\* the secrets the client knows and sends (ADMIN_SECRET, TRUSTED_SECRET)
AdminSecret == env.NEXT_PUBLIC_ADMIN_SECRET
TrustedSecret == env.NEXT_PUBLIC_TRUSTED_SECRET

-----------------------------------------------------------------------------
(* utils/auth_utils.ts *)

RequiredKey(requiredRole) ==
    IF requiredRole = "admin" THEN env.NEXT_PUBLIC_ADMIN_SECRET
    ELSE IF requiredRole = "trusted" THEN env.NEXT_PUBLIC_TRUSTED_SECRET
    ELSE Undef

\* isAuthorized without the `if (!requiredKey) return false` guard
isAuthorizedNoGuard(secretFromHeader, requiredRole) ==
    secretFromHeader = RequiredKey(requiredRole)

isAuthorized(secretFromHeader, requiredRole) ==
    IF Falsy(RequiredKey(requiredRole)) THEN FALSE
    ELSE secretFromHeader = RequiredKey(requiredRole)

\* a check that remembers earlier requests: it admits whoever comes after a
\* request that was answered 201
isAdminOrTrustedAuthorizedSticky(secretFromHeader) ==
    \/ last.handler # "none" /\ last.code = 201
    \/ ~Falsy(secretFromHeader)
          /\ secretFromHeader \in {env.ADMIN_SECRET_KEY, env.TRUSTED_USER_KEY}

isAdminOrTrustedAuthorized(secretFromHeader) ==
    IF Falsy(secretFromHeader) THEN FALSE
    ELSE LET isAdmin == secretFromHeader = env.ADMIN_SECRET_KEY
             isTrusted == secretFromHeader = env.TRUSTED_USER_KEY
         IN  isAdmin \/ isTrusted

\* isAdminAuthorized: imported by the earlier route variants; "is exactly
\* admin": the header equals the configured admin secret, and it is configured
isAdminAuthorized(secretFromHeader) ==
    IF Falsy(env.ADMIN_SECRET_KEY) THEN FALSE
    ELSE secretFromHeader = env.ADMIN_SECRET_KEY

\* console.error of isAuthorized: the messages one evaluation writes
MsgAdminKeyNotSet == "ADMIN_SECRET_KEY environment variable is not set!"
MsgTrustedKeyNotSet == "TRUSTED_SECRET_KEY environment variable is not set!"

isAuthorizedDiagnostics(requiredRole) ==
    IF Falsy(RequiredKey(requiredRole))
    THEN {IF requiredRole = "admin" THEN MsgAdminKeyNotSet ELSE MsgTrustedKeyNotSet}
    ELSE {}

\* isAdminOrTrustedAuthorized calls no console function on any path
isAdminOrTrustedAuthorizedDiagnostics(secretFromHeader) == {}

-----------------------------------------------------------------------------
(* Evaluation of the predicates on one request *)

NoCheck == [isAdmin |-> FALSE, isTrusted |-> FALSE, evaluated |-> FALSE,
            hdr |-> Undef, isEither |-> FALSE,
            diagAdmin |-> {}, diagTrusted |-> {}, diagEither |-> {}]

EvalAuth(h) ==
    /\ check' = [isAdmin   |-> isAuthorized(h, "admin"),
                 isTrusted |-> isAuthorized(h, "trusted"),
                 evaluated |-> TRUE, hdr |-> h,
                 isEither  |-> isAdminOrTrustedAuthorized(h),
                 diagAdmin   |-> isAuthorizedDiagnostics("admin"),
                 diagTrusted |-> isAuthorizedDiagnostics("trusted"),
                 diagEither  |-> isAdminOrTrustedAuthorizedDiagnostics(h)]
    /\ UNCHANGED <<env, norm, places, nextPlaceId, suggestions, nextSuggestionId, last,
                   clientVars>>

NoResponse == [handler |-> "none"]

\* JavaScript null
Null == "<null>"

\* safeFetch has not been called
IdleCall == [i |-> 0, pc |-> "idle", requiresAuth |-> FALSE, responses |-> <<>>,
             delays |-> <<>>, outcome |-> Null, value |-> Null]

\* App before any login: useState defaults with an empty localStorage
\* and LoginScreen as it mounts (secret '', message null, loading false);
\* op and checked remember the last operation and the secret it compared
GuestSession == [role |-> "guest", authSecret |-> Null, storedRole |-> Null,
                 storedSecret |-> Null, timers |-> <<>>, secret |-> "",
                 message |-> Null, loading |-> FALSE, op |-> Null,
                 checked |-> Null]

\* AdminPanel at its first commit: both effects are due
\* no setState call waiting for the next render
NoUpdate == "<no update>"

MountedPanel == [activeTab |-> "form", editingPlace |-> Null,
                 queuedTab |-> NoUpdate, queuedPlace |-> NoUpdate,
                 due |-> {"editingPlace", "activeTab"}, event |-> Null,
                 target |-> Null, saving |-> FALSE]

InitClient ==
    /\ call = IdleCall
    /\ session = GuestSession
    /\ panel = MountedPanel

InitStore ==
    /\ InitClient
    /\ norm = [applied |-> FALSE]
    /\ places = {}
    /\ nextPlaceId = 1
    /\ suggestions = <<>>
    /\ nextSuggestionId = 1
    /\ last = NoResponse

InitAuth ==
    /\ env \in EnvConfigs
    /\ check = NoCheck
    /\ InitStore

NextAuth == \E h \in Headers : EvalAuth(h)

SpecAuth == InitAuth /\ [][NextAuth]_vars

-----------------------------------------------------------------------------
(* Properties of the authorization predicates (checked under SpecAuth) *)

ConfiguredDistinct ==
    /\ ~Falsy(AdminSecret)
    /\ ~Falsy(TrustedSecret)
    /\ AdminSecret # TrustedSecret

\* C1: with admin secret A and trusted secret T configured, non-empty and
\* distinct, header A satisfies exact-admin and admin-or-trusted, header T
\* satisfies admin-or-trusted but not exact-admin, and any other header
\* (or none) satisfies neither.
C1_RoleDerivation ==
    (check.evaluated /\ ConfiguredDistinct) =>
        /\ (check.hdr = AdminSecret) => (check.isAdmin /\ check.isEither)
        /\ (check.hdr = TrustedSecret) => (check.isEither /\ ~check.isAdmin)
        /\ (check.hdr \notin {AdminSecret, TrustedSecret}) =>
               (~check.isAdmin /\ ~check.isEither)

\* C2: when the admin secret is not configured, isAuthorized(req,'admin') is
\* false for every header value, the empty string and an absent header included.
C2_AdminUnsetDenies ==
    (check.evaluated /\ AdminSecret = Undef) => ~check.isAdmin

\* the absent header meets the unset admin secret: undefined === undefined
C2_Witness ==
    check.evaluated /\ AdminSecret = Undef /\ check.hdr = Undef

\* C3: the policy is a strict hierarchy: every request that passes the
\* exact-admin check also passes the admin-or-trusted check.
C3_StrictHierarchy ==
    (check.evaluated /\ check.isAdmin) => check.isEither

-----------------------------------------------------------------------------
(* JSON values of a request body: number, string or absent (undefined) *)

Num(n) == [v |-> n, t |-> "number"]
Str(x) == [t |-> "string", s |-> x]
Absent == [t |-> "undefined"]

\* a string given character by character, for the code that looks inside it
QStr(cs) == [t |-> "string", cs |-> cs]

\* JavaScript truthiness of a body value: `!x` is ~Truthy(x)
Truthy(x) ==
    CASE x.t = "number" -> x.v # 0
      [] x.t = "string" -> IF "cs" \in DOMAIN x THEN Len(x.cs) > 0 ELSE x.s # ""
      [] OTHER -> FALSE

TypeofNumber(x) == x.t = "number"

-----------------------------------------------------------------------------
(* Persistence service: trip places.  A stored stop is [id, day]; the      *)
(* other columns are carried by the request and not tracked.               *)

MaxPlaces == 2

PlaceIds == 1 .. MaxPlaces

\* id of a request whose path carries no id
NoId == 0

PlaceExists(id) == \E p \in places : p.id = id

\* prisma.tripPlace.create: the store assigns a fresh id
createTripPlace(data) == places \cup {[id |-> nextPlaceId, day |-> data.day.v]}

\* prisma.tripPlace.update on an existing row: only the keys of data change
updateTripPlace(id, data) ==
    {IF p.id = id /\ "day" \in DOMAIN data
        THEN [p EXCEPT !.day = data.day.v] ELSE p : p \in places}

\* prisma.tripPlace.delete on an existing row
deleteTripPlace(id) == {p \in places : p.id # id}

\* Prisma rejects a value that is not an Int for the column `day`
PrismaAcceptsUpdate(data) == "day" \in DOMAIN data => TypeofNumber(data.day)

-----------------------------------------------------------------------------
(* Requests to the itinerary routes *)

EmptyBody == <<>>

\* PUT bodies: a partial record of the columns to change
UpdateBodies == {EmptyBody} \cup {[day |-> d] : d \in {Num(2), Num(0), Str("2")}}

CreateBody(day, time, name, purpose, latitude, longitude) ==
    [day |-> day, time |-> time, name |-> name, purpose |-> purpose,
     latitude |-> latitude, longitude |-> longitude]

GoodCreateBody(day) ==
    CreateBody(day, Str("10:00"), Str("n1"), Str("food"), Num(0), Num(0))

\* POST bodies: well-formed ones, and one defect at a time
CreateBodies ==
    {GoodCreateBody(d) : d \in {Num(1), Num(0), Num(-1), Str("1")}}
    \cup {CreateBody(Num(1), Str("10:00"), Str(""), Str("food"), Num(0), Num(0)),
          CreateBody(Num(1), Str("10:00"), Str("n1"), Str("food"), Absent, Num(0))}

\* ?day= query values: absent, or a string
DayQueries ==
    {Absent, QStr(<<>>), QStr(<<"1">>), QStr(<<"0">>),
     QStr(<<"-", "2">>), QStr(<<"a", "b", "c">>), QStr(<<"2", "x">>)}

Methods == {"GET", "POST", "PUT", "DELETE", "PATCH"}

Request(method, h, id, query, body) ==
    [hdr |-> h, id |-> id, method |-> method, query |-> query, body |-> body]

\* the response to a request, with the request and the store it met
Respond(handler, req, code, result, newPlaces) ==
    /\ last' = [handler |-> handler, code |-> code, req |-> req,
                result |-> result, before |-> places]
    /\ places' = newPlaces
    /\ UNCHANGED <<env, check, norm, suggestions, nextSuggestionId, clientVars>>

-----------------------------------------------------------------------------
(* pages/api/itinerary/[id].ts *)

\* DELETE gated by the admin-or-trusted check instead of the exact-admin check
DeleteAuthorizedEither(h) == isAdminOrTrustedAuthorized(h)

DeleteAuthorized(h) == isAuthorized(h, "admin")

\* the PUT branch without its check
PutAuthorizedAlways(h) == TRUE

\* `isAdminOrTrustedAuthorized(req)` of the PUT branch
PutAuthorized(h) == isAdminOrTrustedAuthorized(h)

ItineraryIdHandler(req) ==
    LET R(code, newPlaces) == Respond("itinerary/[id]", req, code, {}, newPlaces)
    IN
    /\ UNCHANGED nextPlaceId
    /\ IF req.id = NoId THEN R(400, places)
       ELSE IF req.method = "PUT"
       THEN IF ~PutAuthorized(req.hdr) THEN R(403, places)
            ELSE IF Cardinality(DOMAIN req.body) = 0 THEN R(400, places)
            ELSE IF ~PrismaAcceptsUpdate(req.body) THEN R(500, places)
            ELSE IF ~PlaceExists(req.id) THEN R(404, places)
            ELSE R(200, updateTripPlace(req.id, req.body))
       ELSE IF req.method = "DELETE"
       THEN IF ~DeleteAuthorized(req.hdr) THEN R(403, places)
            ELSE IF ~PlaceExists(req.id) THEN R(404, places)
            ELSE R(200, deleteTripPlace(req.id))
       ELSE R(405, places)

\* earlier variant of the route: one admin check in front of every verb
ItineraryIdHandlerV1(req) ==
    LET R(code, newPlaces) == Respond("itinerary/[id].v1", req, code, {}, newPlaces)
    IN
    /\ UNCHANGED nextPlaceId
    /\ IF ~isAdminAuthorized(req.hdr) THEN R(403, places)
       ELSE IF req.id = NoId THEN R(400, places)
       ELSE IF req.method = "PUT"
       THEN IF ~PrismaAcceptsUpdate(req.body) THEN R(500, places)
            ELSE IF ~PlaceExists(req.id) THEN R(404, places)
            ELSE R(200, updateTripPlace(req.id, req.body))
       ELSE IF req.method = "DELETE"
       THEN IF ~PlaceExists(req.id) THEN R(404, places)
            ELSE R(200, deleteTripPlace(req.id))
       ELSE R(405, places)

-----------------------------------------------------------------------------
(* pages/api/itinerary.ts *)

Digits == {"0", "1", "2", "3", "4", "5", "6", "7", "8", "9"}

DigitValue(c) ==
    CASE c = "0" -> 0 [] c = "1" -> 1 [] c = "2" -> 2 [] c = "3" -> 3
      [] c = "4" -> 4 [] c = "5" -> 5 [] c = "6" -> 6 [] c = "7" -> 7
      [] c = "8" -> 8 [] c = "9" -> 9

NaN == [v |-> 0, nan |-> TRUE]

RECURSIVE DigitPrefixValue(_, _, _)
\* value of the longest run of digits of cs from position i on, acc so far
DigitPrefixValue(cs, i, acc) ==
    IF i > Len(cs) \/ cs[i] \notin Digits THEN acc
    ELSE DigitPrefixValue(cs, i + 1, acc * 10 + DigitValue(cs[i]))

RECURSIVE SkipSpaces(_, _)
SkipSpaces(cs, i) ==
    IF i <= Len(cs) /\ cs[i] = " " THEN SkipSpaces(cs, i + 1) ELSE i

\* parseInt(day, 10): leading blanks, an optional sign, then digits
parseInt(cs) ==
    LET i == SkipSpaces(cs, 1)
        signed == i <= Len(cs) /\ cs[i] \in {"-", "+"}
        j == IF signed THEN i + 1 ELSE i
        magnitude == DigitPrefixValue(cs, j, 0)
    IN  IF j > Len(cs) \/ cs[j] \notin Digits THEN NaN
        ELSE [v |-> IF signed /\ cs[i] = "-" THEN 0 - magnitude ELSE magnitude,
              nan |-> FALSE]

\* `if (dayQuery)`: the parameter is present and not the empty string
QueryGiven(q) == q.t = "string" /\ Len(q.cs) > 0

\* the query that finds nothing
getTripPlacesNone(dayFilter) == {}

\* getTripPlaces(day): `day ? { day } : {}`
getTripPlaces(dayFilter) ==
    IF dayFilter = NoId THEN places ELSE {p \in places : p.day = dayFilter}

\* the day filter of a GET, NoId (0) when there is none; defined when valid
DayFilterOf(q) == IF QueryGiven(q) THEN parseInt(q.cs).v ELSE NoId

\* the validation that only rejects what is not a number
InvalidDayNaNOnly(q) == QueryGiven(q) /\ parseInt(q.cs).nan

\* `isNaN(parsedDay) || parsedDay < 1`
InvalidDay(q) ==
    QueryGiven(q) /\ (parseInt(q.cs).nan \/ parseInt(q.cs).v < 1)

\* validation of a POST body in the current variant
CreateBodyInvalid(b) ==
    \/ ~Truthy(b.day) \/ ~TypeofNumber(b.day)
    \/ ~Truthy(b.time) \/ ~Truthy(b.name) \/ ~Truthy(b.purpose)
    \/ b.latitude.t = "undefined" \/ ~TypeofNumber(b.latitude)
    \/ b.longitude.t = "undefined" \/ ~TypeofNumber(b.longitude)

PostAuthorized(h) == isAuthorized(h, "admin")

ItineraryHandler(req) ==
    LET R(code, result, newPlaces) == Respond("itinerary", req, code, result, newPlaces)
    IN
    IF req.method = "GET"
    THEN /\ UNCHANGED nextPlaceId
         /\ IF InvalidDay(req.query) THEN R(400, {}, places)
            ELSE R(200, getTripPlaces(DayFilterOf(req.query)), places)
    ELSE IF req.method = "POST"
    THEN IF ~PostAuthorized(req.hdr)
         THEN UNCHANGED nextPlaceId /\ R(403, {}, places)
         ELSE IF CreateBodyInvalid(req.body)
         THEN UNCHANGED nextPlaceId /\ R(400, {}, places)
         ELSE /\ nextPlaceId <= MaxPlaces
              /\ nextPlaceId' = nextPlaceId + 1
              /\ R(201, {}, createTripPlace(req.body))
    ELSE UNCHANGED nextPlaceId /\ R(405, {}, places)

-----------------------------------------------------------------------------
(* The itinerary routes under every request *)

InitServer ==
    /\ env \in ServerEnvConfigs
    /\ check = NoCheck
    /\ InitStore

PutRequest ==
    \E h \in ServerHeaders, id \in PlaceIds \cup {NoId}, b \in UpdateBodies :
        ItineraryIdHandler(Request("PUT", h, id, Absent, b))

DeleteRequest ==
    \E h \in ServerHeaders, id \in PlaceIds \cup {NoId} :
        ItineraryIdHandler(Request("DELETE", h, id, Absent, EmptyBody))

OtherIdRequest ==
    \E h \in ServerHeaders, id \in PlaceIds \cup {NoId}, m \in Methods \ {"PUT", "DELETE"} :
        ItineraryIdHandler(Request(m, h, id, Absent, EmptyBody))

PutRequestV1 ==
    \E h \in ServerHeaders, id \in PlaceIds \cup {NoId}, b \in UpdateBodies :
        ItineraryIdHandlerV1(Request("PUT", h, id, Absent, b))

DeleteRequestV1 ==
    \E h \in ServerHeaders, id \in PlaceIds \cup {NoId} :
        ItineraryIdHandlerV1(Request("DELETE", h, id, Absent, EmptyBody))

OtherIdRequestV1 ==
    \E h \in ServerHeaders, id \in PlaceIds \cup {NoId}, m \in Methods \ {"PUT", "DELETE"} :
        ItineraryIdHandlerV1(Request(m, h, id, Absent, EmptyBody))

GetRequest ==
    \E h \in ServerHeaders, q \in DayQueries :
        ItineraryHandler(Request("GET", h, NoId, q, EmptyBody))

PostRequest ==
    \E h \in ServerHeaders, b \in CreateBodies :
        ItineraryHandler(Request("POST", h, NoId, Absent, b))

OtherRequest ==
    \E h \in ServerHeaders, m \in Methods \ {"GET", "POST"} :
        ItineraryHandler(Request(m, h, NoId, Absent, EmptyBody))

NextItinerary ==
    \/ PutRequest
    \/ DeleteRequest
    \/ OtherIdRequest
    \/ PutRequestV1
    \/ DeleteRequestV1
    \/ OtherIdRequestV1
    \/ GetRequest
    \/ PostRequest
    \/ OtherRequest

SpecItinerary == InitServer /\ [][NextItinerary]_vars

-----------------------------------------------------------------------------
(* Properties of the itinerary routes (checked under SpecItinerary) *)

Answered(handler, method) ==
    last.handler = handler /\ last.req.method = method

ExistedBefore(id) == \E p \in last.before : p.id = id

\* the request carries a secret the client can hold
CarriesAdminSecret == ~Falsy(AdminSecret) /\ last.req.hdr = AdminSecret
CarriesTrustedSecret == ~Falsy(TrustedSecret) /\ last.req.hdr = TrustedSecret

\* the exact-admin predicate of the variant that answered
ExactAdmin ==
    IF last.handler = "itinerary/[id]" THEN isAuthorized(last.req.hdr, "admin")
    ELSE isAdminAuthorized(last.req.hdr)

AnsweredDelete ==
    Answered("itinerary/[id]", "DELETE") \/ Answered("itinerary/[id].v1", "DELETE")

\* C4: DELETE of a stop removes it only when the request satisfies the
\* exact-admin predicate; a request that does not (the trusted secret, which
\* is admin-or-trusted but not admin) is answered 403 and the stop stays stored.
C4_DeleteAdminOnly ==
    AnsweredDelete =>
        /\ (places # last.before) => (ExactAdmin /\ last.code = 200)
        /\ (last.code = 200) => (places = {p \in last.before : p.id # last.req.id})
        /\ (~ExactAdmin /\ last.req.id # NoId) =>
               (last.code = 403 /\ places = last.before)

\* a DELETE of a stored stop with the trusted secret, which passes the
\* admin-or-trusted check, was answered 403 and the stop is still there
C4_Witness ==
    /\ Answered("itinerary/[id]", "DELETE")
    /\ CarriesTrustedSecret
    /\ isAdminOrTrustedAuthorized(last.req.hdr)
    /\ ExistedBefore(last.req.id)
    /\ last.code = 403
    /\ PlaceExists(last.req.id)

\* C5: POST to create a stop is gated by the admin-or-trusted check: a
\* well-formed request with the admin or the trusted secret is answered 201
\* and the stop is stored; a request with neither is answered 403.
C5_CreateAdminOrTrusted ==
    (Answered("itinerary", "POST") /\ ~CreateBodyInvalid(last.req.body)) =>
        IF CarriesAdminSecret \/ CarriesTrustedSecret
        THEN last.code = 201 /\ Cardinality(places) = Cardinality(last.before) + 1
        ELSE last.code = 403 /\ places = last.before

\* C6: PUT to update a stop is gated by the admin-or-trusted check: with a
\* non-empty body and an existing id, a request with the admin or the trusted
\* secret is answered 200 with the stop updated; a request with neither is
\* answered 403 with the stop unchanged.
C6_UpdateAdminOrTrusted ==
    (/\ Answered("itinerary/[id]", "PUT")
     /\ Cardinality(DOMAIN last.req.body) > 0
     /\ PrismaAcceptsUpdate(last.req.body)
     /\ ExistedBefore(last.req.id)) =>
        IF CarriesAdminSecret \/ CarriesTrustedSecret
        THEN /\ last.code = 200
             /\ \E p \in places : p.id = last.req.id /\ p.day = last.req.body.day.v
        ELSE last.code = 403 /\ places = last.before

-----------------------------------------------------------------------------
(* SuggestionStatus enum and the two normalizations of a status token *)

Pending == <<"P", "e", "n", "d", "i", "n", "g">>
Approved == <<"A", "p", "p", "r", "o", "v", "e", "d">>
Rejected == <<"R", "e", "j", "e", "c", "t", "e", "d">>

\* Object.values(SuggestionStatus)
SuggestionStatusValues == {Pending, Approved, Rejected}

LowerLetters ==
    <<"a", "b", "c", "d", "e", "f", "g", "h", "i", "j", "k", "l", "m",
      "n", "o", "p", "q", "r", "s", "t", "u", "v", "w", "x", "y", "z">>

UpperLetters ==
    <<"A", "B", "C", "D", "E", "F", "G", "H", "I", "J", "K", "L", "M",
      "N", "O", "P", "Q", "R", "S", "T", "U", "V", "W", "X", "Y", "Z">>

ToUpperChar(c) ==
    IF \E i \in 1 .. 26 : LowerLetters[i] = c
    THEN UpperLetters[CHOOSE i \in 1 .. 26 : LowerLetters[i] = c] ELSE c

ToLowerChar(c) ==
    IF \E i \in 1 .. 26 : UpperLetters[i] = c
    THEN LowerLetters[CHOOSE i \in 1 .. 26 : UpperLetters[i] = c] ELSE c

toUpperCase(cs) == [i \in 1 .. Len(cs) |-> ToUpperChar(cs[i])]

toLowerCase(cs) == [i \in 1 .. Len(cs) |-> ToLowerChar(cs[i])]

\* status.charAt(0).toUpperCase() + status.slice(1).toLowerCase()
TitleCase(cs) ==
    IF Len(cs) = 0 THEN <<>>
    ELSE <<ToUpperChar(cs[1])>> \o toLowerCase(SubSeq(cs, 2, Len(cs)))

\* Object.values(SuggestionStatus).includes(v)
IsSuggestionStatus(v) == v \in SuggestionStatusValues

-----------------------------------------------------------------------------
(* Persistence service: suggestions, kept in creation order (createdAt) *)

MaxSuggestions == 2

SuggestionIds == 1 .. MaxSuggestions

SuggestionExists(id) == \E i \in 1 .. Len(suggestions) : suggestions[i].id = id

\* createSuggestion storing another member of the enum than Pending
createSuggestionApproved(data) ==
    Append(suggestions, [id |-> nextSuggestionId, status |-> Approved])

\* prisma.suggestion.create with status: SuggestionStatus.Pending
createSuggestion(data) ==
    Append(suggestions, [id |-> nextSuggestionId, status |-> Pending])

RECURSIVE Reverse(_)
Reverse(q) == IF q = <<>> THEN <<>> ELSE Append(Reverse(Tail(q)), Head(q))

\* a where-clause value meaning "no filter"
NoFilter == <<>>

\* prisma.suggestion.findMany, `status ? { status } : {}`, createdAt desc
getSuggestions(status) ==
    Reverse(SelectSeq(suggestions,
                      LAMBDA sg : status = NoFilter \/ sg.status = status))

\* prisma.suggestion.update on an existing row
updateSuggestionStatus(id, newStatus) ==
    [i \in 1 .. Len(suggestions) |->
        IF suggestions[i].id = id
        THEN [suggestions[i] EXCEPT !.status = newStatus] ELSE suggestions[i]]

-----------------------------------------------------------------------------
(* Requests to the suggestion routes *)

Token(cs) == QStr(cs)

\* status values of a PATCH body
StatusValues ==
    {Absent, Num(5), Token(<<>>),
     Token(<<"a", "p", "p", "r", "o", "v", "e", "d">>),
     Token(<<"A", "P", "P", "R", "O", "V", "E", "D">>),
     Token(<<"p", "e", "n", "d", "i", "n", "g">>),
     Token(<<"r", "e", "j", "e", "c", "t", "e", "d">>),
     Token(<<"a", "r", "c", "h", "i", "v", "e", "d">>)}

\* ?status= values of an inbox GET
StatusQueries ==
    {Absent, Token(<<>>),
     Token(<<"p", "e", "n", "d", "i", "n", "g">>),
     Token(<<"A", "P", "P", "R", "O", "V", "E", "D">>),
     Token(<<"a", "r", "c", "h", "i", "v", "e", "d">>)}

SuggestionBody(userId, title, text, status) ==
    [status |-> status, userId |-> userId, title |-> title, text |-> text]

\* POST bodies: complete ones, one with a status field, one defect at a time
SuggestionBodies ==
    {SuggestionBody(Str("u1"), Str("Cat cafe"), Str("because cats"), Absent),
     SuggestionBody(Str("u1"), Str("Cat cafe"), Str("because cats"), Token(Approved)),
     SuggestionBody(Absent, Str("Cat cafe"), Str("because cats"), Absent),
     SuggestionBody(Str("u1"), Str(""), Str("because cats"), Absent),
     SuggestionBody(Str("u1"), Str("Cat cafe"), Absent, Absent)}

MsgForbidden == "Forbidden"
MsgMethodNotAllowed == "Method Not Allowed"
MsgIdRequired == "Suggestion ID is required in the URL path."
MsgStatusMissing == "Missing required field: status is mandatory for PATCH request body."
MsgIdStatusMissing == "Missing required fields: id and status are mandatory for updating."
MsgFieldsMissing == "Missing required fields: userId, title, and text are mandatory."
MsgInvalidFilter == "Invalid status filter. Must be \"pending\", \"approved\", or \"rejected\"."
MsgInvalidValue == "Invalid status value. Must be \"pending\", \"approved\", or \"rejected\"."
MsgInvalidValueV1 == "Invalid status value. Must be \"Pending\", \"Approved\", or \"Rejected\"."
MsgInvalidProvided == "Invalid status provided. Must be \"pending\", \"approved\", or \"rejected\"."
MsgNotFound == "Suggestion not found"
MsgServerError == "server error"
MsgNone == ""

RespondS(handler, req, code, msg, result, newSuggestions) ==
    /\ last' = [handler |-> handler, code |-> code, req |-> req,
                result |-> result, before |-> suggestions, msg |-> msg]
    /\ suggestions' = newSuggestions
    /\ UNCHANGED <<env, check, norm, places, nextPlaceId, clientVars>>

\* the validation that only looks at the user id
SuggestionBodyInvalidUserIdOnly(b) == ~Truthy(b.userId)

\* `!userId || !title || !text`
SuggestionBodyInvalid(b) == ~Truthy(b.userId) \/ ~Truthy(b.title) \/ ~Truthy(b.text)

\* status.toUpperCase() / status.charAt(0) throw a TypeError on a non-string
IsString(x) == x.t = "string"

-----------------------------------------------------------------------------
(* pages/api/suggestions.ts *)

\* `const suggestionData = { userId, title, text }`
CreateSuggestionData(b) == [userId |-> b.userId, title |-> b.title, text |-> b.text]

\* the POST branch, the same in both variants of the route
SuggestionPost(handler, req) ==
    IF SuggestionBodyInvalid(req.body)
    THEN /\ UNCHANGED nextSuggestionId
         /\ RespondS(handler, req, 400, MsgFieldsMissing, <<>>, suggestions)
    ELSE /\ nextSuggestionId <= MaxSuggestions
         /\ nextSuggestionId' = nextSuggestionId + 1
         /\ RespondS(handler, req, 201, MsgNone, <<>>,
                     createSuggestion(CreateSuggestionData(req.body)))

\* variant with the status filter in title case
SuggestionsHandlerV1(req) ==
    LET R(code, msg, result) ==
            /\ UNCHANGED nextSuggestionId
            /\ RespondS("suggestions.v1", req, code, msg, result, suggestions)
        statusUpper == TitleCase(req.query.cs)
    IN
    IF req.method = "GET"
    THEN IF ~isAdminAuthorized(req.hdr) THEN R(403, MsgForbidden, <<>>)
         ELSE IF ~Truthy(req.query) THEN R(200, MsgNone, getSuggestions(NoFilter))
         ELSE IF IsSuggestionStatus(statusUpper)
         THEN R(200, MsgNone, getSuggestions(statusUpper))
         ELSE R(400, MsgInvalidFilter, <<>>)
    ELSE IF req.method = "POST" THEN SuggestionPost("suggestions.v1", req)
    ELSE R(405, MsgMethodNotAllowed, <<>>)

\* the inbox check widened to the admin-or-trusted predicate
InboxAuthorizedEither(h) == isAdminOrTrustedAuthorized(h)

\* `isAuthorized(req, 'admin')` of the GET branch
InboxAuthorized(h) == isAuthorized(h, "admin")

\* variant with the status in upper case and the PATCH verb
SuggestionsHandler(req) ==
    LET R(code, msg, result) ==
            /\ UNCHANGED nextSuggestionId
            /\ RespondS("suggestions", req, code, msg, result, suggestions)
    IN
    IF req.method = "GET"
    THEN IF ~InboxAuthorized(req.hdr) THEN R(403, MsgForbidden, <<>>)
         ELSE IF ~Truthy(req.query) THEN R(200, MsgNone, getSuggestions(NoFilter))
         ELSE IF IsSuggestionStatus(toUpperCase(req.query.cs))
         THEN R(200, MsgNone, getSuggestions(toUpperCase(req.query.cs)))
         ELSE R(400, MsgInvalidFilter, <<>>)
    ELSE IF req.method = "POST" THEN SuggestionPost("suggestions", req)
    ELSE IF req.method = "PATCH"
    THEN IF ~isAdminOrTrustedAuthorized(req.hdr) THEN R(403, MsgForbidden, <<>>)
         ELSE IF req.id = NoId \/ ~Truthy(req.body.status)
         THEN R(400, MsgIdStatusMissing, <<>>)
         ELSE IF ~IsString(req.body.status) THEN R(500, MsgServerError, <<>>)
         ELSE IF ~IsSuggestionStatus(toUpperCase(req.body.status.cs))
         THEN R(400, MsgInvalidProvided, <<>>)
         ELSE IF ~SuggestionExists(req.id) THEN R(500, MsgServerError, <<>>)
         ELSE /\ UNCHANGED nextSuggestionId
              /\ RespondS("suggestions", req, 200, MsgNone, <<>>,
                          updateSuggestionStatus(req.id, toUpperCase(req.body.status.cs)))
    ELSE R(405, MsgMethodNotAllowed, <<>>)

-----------------------------------------------------------------------------
(* pages/api/suggestions/[id].ts *)

\* the status check of the upper-case variant, accepting every string
StatusRejectedNever(status) == FALSE

\* `!Object.values(SuggestionStatus).includes(statusUpper)`, upper-case variant
StatusRejected(status) == ~IsSuggestionStatus(toUpperCase(status))

\* the check of the title-case variant, accepting every string
StatusRejectedV1Never(status) == FALSE

\* the same check in the title-case variant
StatusRejectedV1(status) == ~IsSuggestionStatus(TitleCase(status))

\* variant with the status in title case, admin check in front of everything
SuggestionIdHandlerV1(req) ==
    LET R(code, msg) ==
            /\ UNCHANGED nextSuggestionId
            /\ RespondS("suggestions/[id].v1", req, code, msg, <<>>, suggestions)
    IN
    IF ~isAdminAuthorized(req.hdr) THEN R(403, MsgForbidden)
    ELSE IF req.method # "PATCH" THEN R(405, MsgMethodNotAllowed)
    ELSE IF req.id = NoId THEN R(400, MsgIdRequired)
    ELSE IF ~Truthy(req.body.status) THEN R(400, MsgStatusMissing)
    ELSE IF ~IsString(req.body.status) THEN R(500, MsgServerError)
    ELSE IF StatusRejectedV1(req.body.status.cs) THEN R(400, MsgInvalidValueV1)
    ELSE IF ~SuggestionExists(req.id) THEN R(404, MsgNotFound)
    ELSE /\ UNCHANGED nextSuggestionId
         /\ RespondS("suggestions/[id].v1", req, 200, MsgNone, <<>>,
                     updateSuggestionStatus(req.id, TitleCase(req.body.status.cs)))

\* the handler without its presence check
StatusMissingNever(status) == FALSE

\* `if (!status)`
StatusMissing(status) == ~Truthy(status)

\* variant with the status in upper case, admin-or-trusted check on PATCH
SuggestionIdHandler(req) ==
    LET R(code, msg) ==
            /\ UNCHANGED nextSuggestionId
            /\ RespondS("suggestions/[id]", req, code, msg, <<>>, suggestions)
    IN
    IF req.method = "PATCH" /\ ~isAdminOrTrustedAuthorized(req.hdr)
    THEN R(403, MsgForbidden)
    ELSE IF req.method # "PATCH" THEN R(405, MsgMethodNotAllowed)
    ELSE IF req.id = NoId THEN R(400, MsgIdRequired)
    ELSE IF StatusMissing(req.body.status) THEN R(400, MsgStatusMissing)
    ELSE IF ~IsString(req.body.status) THEN R(500, MsgServerError)
    ELSE IF StatusRejected(req.body.status.cs) THEN R(400, MsgInvalidValue)
    ELSE IF ~SuggestionExists(req.id) THEN R(404, MsgNotFound)
    ELSE /\ UNCHANGED nextSuggestionId
         /\ RespondS("suggestions/[id]", req, 200, MsgNone, <<>>,
                     updateSuggestionStatus(req.id, toUpperCase(req.body.status.cs)))

-----------------------------------------------------------------------------
(* The suggestion routes under every request *)

PatchBody(status) == [status |-> status]

InboxRequestV1 ==
    \E h \in ServerHeaders, q \in StatusQueries :
        SuggestionsHandlerV1(Request("GET", h, NoId, q, EmptyBody))

SubmitRequestV1 ==
    \E h \in ServerHeaders, b \in SuggestionBodies :
        SuggestionsHandlerV1(Request("POST", h, NoId, Absent, b))

OtherSuggestionsRequestV1 ==
    \E h \in ServerHeaders, m \in Methods \ {"GET", "POST"} :
        SuggestionsHandlerV1(Request(m, h, NoId, Absent, EmptyBody))

InboxRequest ==
    \E h \in ServerHeaders, q \in StatusQueries :
        SuggestionsHandler(Request("GET", h, NoId, q, EmptyBody))

SubmitRequest ==
    \E h \in ServerHeaders, b \in SuggestionBodies :
        SuggestionsHandler(Request("POST", h, NoId, Absent, b))

BodyPatchRequest ==
    \E h \in ServerHeaders, id \in SuggestionIds \cup {NoId}, v \in StatusValues :
        SuggestionsHandler(Request("PATCH", h, id, Absent, PatchBody(v)))

OtherSuggestionsRequest ==
    \E h \in ServerHeaders, m \in Methods \ {"GET", "POST", "PATCH"} :
        SuggestionsHandler(Request(m, h, NoId, Absent, EmptyBody))

PatchRequestV1 ==
    \E h \in ServerHeaders, id \in SuggestionIds \cup {NoId}, v \in StatusValues :
        SuggestionIdHandlerV1(Request("PATCH", h, id, Absent, PatchBody(v)))

OtherSuggestionIdRequestV1 ==
    \E h \in ServerHeaders, m \in Methods \ {"PATCH"} :
        SuggestionIdHandlerV1(Request(m, h, 1, Absent, EmptyBody))

PatchRequest ==
    \E h \in ServerHeaders, id \in SuggestionIds \cup {NoId}, v \in StatusValues :
        SuggestionIdHandler(Request("PATCH", h, id, Absent, PatchBody(v)))

OtherSuggestionIdRequest ==
    \E h \in ServerHeaders, m \in Methods \ {"PATCH"} :
        SuggestionIdHandler(Request(m, h, 1, Absent, EmptyBody))

NextSuggestions ==
    \/ InboxRequestV1
    \/ SubmitRequestV1
    \/ OtherSuggestionsRequestV1
    \/ InboxRequest
    \/ SubmitRequest
    \/ BodyPatchRequest
    \/ OtherSuggestionsRequest
    \/ PatchRequestV1
    \/ OtherSuggestionIdRequestV1
    \/ PatchRequest
    \/ OtherSuggestionIdRequest

SpecSuggestions == InitServer /\ [][NextSuggestions]_vars

-----------------------------------------------------------------------------
(* The two normalizations applied to one token *)

RECURSIVE Casings(_)
\* every way of writing the word w in upper and lower case letters
Casings(w) ==
    IF w = <<>> THEN {<<>>}
    ELSE {<<c>> \o r : c \in {ToLowerChar(Head(w)), ToUpperChar(Head(w))},
                       r \in Casings(Tail(w))}

NormTokens ==
    Casings(Pending) \cup Casings(Approved) \cup Casings(Rejected)
    \cup {<<>>, <<"a", "r", "c", "h", "i", "v", "e", "d">>,
          <<" ", "A", "p", "p", "r", "o", "v", "e", "d", " ">>,
          <<"p", "e", "n", "d">>}

\* the token is drawn at the start; Normalize applies both variants to it
Normalize ==
    /\ ~norm.applied
    /\ "token" \in DOMAIN norm
    /\ norm' = [applied |-> TRUE, title |-> TitleCase(norm.token),
                token |-> norm.token,
                titleRejected |-> StatusRejectedV1(norm.token),
                upper |-> toUpperCase(norm.token),
                upperRejected |-> StatusRejected(norm.token)]
    /\ UNCHANGED <<env, check, places, nextPlaceId, suggestions, nextSuggestionId, last,
                   clientVars>>

InitNormalize ==
    /\ env = EnvConfig("A", "T", "A", "T")
    /\ check = NoCheck
    /\ norm \in {[applied |-> FALSE, token |-> cs] : cs \in NormTokens}
    /\ InitClient
    /\ places = {}
    /\ nextPlaceId = 1
    /\ suggestions = <<>>
    /\ nextSuggestionId = 1
    /\ last = NoResponse

NextNormalize == Normalize

SpecNormalize == InitNormalize /\ [][NextNormalize]_vars

-----------------------------------------------------------------------------
(* Properties of the suggestion routes (checked under SpecSuggestions) *)

LowerOf(status) == toLowerCase(status)

\* the token is one of the three legal values in some casing
IsCasingOfLegal(cs) == \E L \in SuggestionStatusValues : LowerOf(cs) = LowerOf(L)

LegalOf(cs) == CHOOSE L \in SuggestionStatusValues : LowerOf(cs) = LowerOf(L)

\* a non-empty string that is none of the three legal values in any casing
UnknownToken(v) == IsString(v) /\ Len(v.cs) > 0 /\ ~IsCasingOfLegal(v.cs)

SuggestionExistedBefore(id) ==
    \E i \in 1 .. Len(last.before) : last.before[i].id = id

StoredStatus(id) ==
    suggestions[CHOOSE i \in 1 .. Len(suggestions) : suggestions[i].id = id].status

AnsweredStatusPatch ==
    \/ Answered("suggestions/[id]", "PATCH")
    \/ Answered("suggestions", "PATCH")

\* C7: a PATCH of an existing suggestion's status with the token "approved"
\* in any casing and the trusted secret (one the admin-or-trusted check
\* accepts) is answered 200 and the stored status becomes Approved.
C7_TrustedApproves ==
    (/\ AnsweredStatusPatch
     /\ CarriesTrustedSecret
     /\ isAdminOrTrustedAuthorized(last.req.hdr)
     /\ SuggestionExistedBefore(last.req.id)
     /\ IsString(last.req.body.status)
     /\ LowerOf(last.req.body.status.cs) = LowerOf(Approved)) =>
        (last.code = 200 /\ StoredStatus(last.req.id) = Approved)

\* the authorization predicate of the route and verb that answered
CallerAuthorized ==
    CASE last.handler = "suggestions/[id]" -> isAdminOrTrustedAuthorized(last.req.hdr)
      [] last.handler = "suggestions/[id].v1" -> isAdminAuthorized(last.req.hdr)
      [] last.handler = "suggestions.v1" -> isAdminAuthorized(last.req.hdr)
      [] last.handler = "suggestions" ->
            IF last.req.method = "GET" THEN isAuthorized(last.req.hdr, "admin")
            ELSE isAdminOrTrustedAuthorized(last.req.hdr)
      [] OTHER -> FALSE

NamesLegalValues(msg) ==
    msg \in {MsgInvalidFilter, MsgInvalidValue, MsgInvalidValueV1, MsgInvalidProvided}

UnknownStatusPatch ==
    /\ \/ AnsweredStatusPatch
       \/ Answered("suggestions/[id].v1", "PATCH")
    /\ last.req.id # NoId
    /\ UnknownToken(last.req.body.status)

UnknownStatusFilter ==
    /\ \/ Answered("suggestions", "GET")
       \/ Answered("suggestions.v1", "GET")
    /\ UnknownToken(last.req.query)

\* C8: a status PATCH or an inbox status filter from an authorized caller
\* whose token matches none of pending, approved, rejected in any casing is
\* answered 400 with a message naming the three legal values, and no stored
\* suggestion changes.
C8_UnknownStatusRejected ==
    ((UnknownStatusPatch \/ UnknownStatusFilter) /\ CallerAuthorized) =>
        /\ last.code = 400
        /\ NamesLegalValues(last.msg)
        /\ suggestions = last.before

\* PATCH of a stored suggestion to "archived" with the admin secret: 400
C8_Witness ==
    /\ Answered("suggestions/[id]", "PATCH")
    /\ CarriesAdminSecret
    /\ isAdminOrTrustedAuthorized(last.req.hdr)
    /\ SuggestionExistedBefore(last.req.id)
    /\ last.req.body.status = Token(<<"a", "r", "c", "h", "i", "v", "e", "d">>)
    /\ last.code = 400

AnsweredSubmit ==
    Answered("suggestions.v1", "POST") \/ Answered("suggestions", "POST")

\* C10: POST of a suggestion with non-empty userId, title and text is
\* answered 201 whatever the header, and the created record has status
\* Pending whatever else the body carries.
C10_PublicCreatePending ==
    (AnsweredSubmit /\ ~SuggestionBodyInvalid(last.req.body)) =>
        /\ last.code = 201
        /\ Len(suggestions) = Len(last.before) + 1
        /\ SubSeq(suggestions, 1, Len(last.before)) = last.before
        /\ suggestions[Len(suggestions)].status = Pending

\* a submission without header whose body asks for status Approved
C10_Witness ==
    /\ Answered("suggestions.v1", "POST")
    /\ last.req.hdr = Undef
    /\ last.req.body.status = Token(Approved)
    /\ last.code = 201
    /\ suggestions[Len(suggestions)].status = Pending

-----------------------------------------------------------------------------
(* Properties of the normalizations (checked under SpecNormalize) *)

\* C9: status normalization is case-insensitive and idempotent: every casing
\* of a legal status is accepted and resolves to the same canonical enum
\* value, and a canonical value is returned unchanged, in the title-case
\* variant and in the upper-case variant.
C9_CaseInsensitiveIdempotent ==
    (norm.applied /\ IsCasingOfLegal(norm.token)) =>
        /\ ~norm.titleRejected
        /\ norm.title = LegalOf(norm.token)
        /\ ~norm.upperRejected
        /\ norm.upper = LegalOf(norm.token)

-----------------------------------------------------------------------------
(* Properties of the suggestion inbox (checked under SpecSuggestions) *)

AnsweredInbox ==
    Answered("suggestions", "GET") \/ Answered("suggestions.v1", "GET")

\* the exact-admin predicate of the inbox variant that answered
InboxAdmin ==
    IF last.handler = "suggestions" THEN isAuthorized(last.req.hdr, "admin")
    ELSE isAdminAuthorized(last.req.hdr)

\* C11: GET of the suggestion inbox is admin-only: a request with no header
\* or with the trusted secret is answered 403 and carries no suggestion; only
\* a request satisfying the exact-admin predicate is answered 200, and the
\* admin secret without a filter gets 200 with the whole list.
C11_InboxAdminOnly ==
    AnsweredInbox =>
        /\ (last.req.hdr = Undef \/ CarriesTrustedSecret) =>
               (last.code = 403 /\ last.result = <<>>)
        /\ (last.code # 200) => (last.result = <<>>)
        /\ (last.code = 200) => InboxAdmin
        /\ (InboxAdmin /\ ~Truthy(last.req.query)) =>
               (last.code = 200 /\ last.result = getSuggestions(NoFilter))
        /\ (Answered("suggestions", "GET") /\ CarriesAdminSecret) =>
               (last.code # 403)
        /\ suggestions = last.before

\* the inbox of a non-empty store asked with the trusted secret, which passes
\* the admin-or-trusted check: 403 and nothing disclosed
C11_Witness ==
    /\ Answered("suggestions", "GET")
    /\ CarriesTrustedSecret
    /\ isAdminOrTrustedAuthorized(last.req.hdr)
    /\ Len(suggestions) > 0
    /\ last.code = 403
    /\ last.result = <<>>

\* the elements of a list
Range(q) == {q[i] : i \in 1 .. Len(q)}

\* ids are handed out in creation order: a later creation has a larger id
NewestFirst(list) ==
    \A i, j \in 1 .. Len(list) : i < j => list[i].id > list[j].id

\* the stored suggestions the filter asks for: all of them without a filter
Requested(q) ==
    IF ~Truthy(q) THEN Range(suggestions)
    ELSE {sg \in Range(suggestions) : sg.status = LegalOf(q.cs)}

LegalFilter(q) == ~Truthy(q) \/ (IsString(q) /\ IsCasingOfLegal(q.cs))

\* C12: an inbox GET from an authorized caller, without a filter or with a
\* legal status in any casing as filter, is answered 200 with exactly the
\* stored suggestions (those of the requested status under a filter), the
\* newest first.
C12_InboxNewestFirst ==
    (AnsweredInbox /\ InboxAdmin /\ LegalFilter(last.req.query)) =>
        /\ last.code = 200
        /\ Range(last.result) = Requested(last.req.query)
        /\ Len(last.result) = Cardinality(Requested(last.req.query))
        /\ NewestFirst(last.result)

-----------------------------------------------------------------------------
(* Properties of the stored suggestions (checked under SpecSuggestions) *)

StatusBefore(id) ==
    last.before[CHOOSE i \in 1 .. Len(last.before) : last.before[i].id = id].status

\* C13: after any sequence of requests the status of every stored suggestion
\* is one of the three values Pending, Approved, Rejected.
C13_StatusInEnum ==
    \A i \in 1 .. Len(suggestions) : suggestions[i].status \in {Pending, Approved, Rejected}

\* a status PATCH went through and moved a suggestion from Pending to Rejected
C13_Witness ==
    /\ Answered("suggestions/[id].v1", "PATCH")
    /\ last.code = 200
    /\ StatusBefore(last.req.id) = Pending
    /\ StoredStatus(last.req.id) = Rejected

-----------------------------------------------------------------------------
(* Properties of the stored stops (checked under SpecItinerary) *)

\* C14: after any sequence of itinerary POST and PUT requests every stored
\* stop has day >= 1: a create or update whose day is 0 or negative stores
\* nothing.
C14_DayAtLeastOne == \A p \in places : p.day >= 1

-----------------------------------------------------------------------------
(* The gated verbs of the current routes, on one store *)

NextGated ==
    \/ PutRequest
    \/ DeleteRequest
    \/ PostRequest
    \/ SubmitRequest
    \/ BodyPatchRequest

SpecGated == InitServer /\ [][NextGated]_vars

-----------------------------------------------------------------------------
(* Properties of the gated verbs (checked under SpecGated) *)

\* the response is that of a (resource, verb) pair behind an authorization check
Gated(r) ==
    \/ r.handler = "itinerary/[id]" /\ r.req.method \in {"PUT", "DELETE"}
    \/ r.handler = "itinerary" /\ r.req.method = "POST"
    \/ r.handler = "suggestions" /\ r.req.method = "PATCH"

\* the check the handler makes for that pair
GateHolds(r) ==
    IF r.handler = "itinerary/[id]" /\ r.req.method = "PUT"
    THEN isAdminOrTrustedAuthorized(r.req.hdr)
    ELSE IF r.handler = "suggestions" THEN isAdminOrTrustedAuthorized(r.req.hdr)
    ELSE isAuthorized(r.req.hdr, "admin")

StoreUnchanged ==
    /\ places' = places
    /\ nextPlaceId' = nextPlaceId
    /\ suggestions' = suggestions
    /\ nextSuggestionId' = nextSuggestionId

\* the only answer that precedes the check: itinerary/[id] without an id
MissingId(r) == r.handler = "itinerary/[id]" /\ r.req.id = NoId

DeniedStep ==
    (Gated(last') /\ ~GateHolds(last')) =>
        /\ StoreUnchanged
        /\ last'.code = IF MissingId(last') THEN 400 ELSE 403

\* C15: a request to a gated (resource, verb) pair whose authorization check
\* fails is answered 403 by a step that leaves the whole store as it was: no
\* create, update or delete happens on behalf of a denied request.
C15_DeniedLeavesStore == [][DeniedStep]_vars

\* a PUT of a stored stop carrying a secret the check does not accept: 403,
\* and the stop is as before
C15_Witness ==
    /\ Answered("itinerary/[id]", "PUT")
    /\ last.req.hdr # Undef
    /\ ~isAdminOrTrustedAuthorized(last.req.hdr)
    /\ ExistedBefore(last.req.id)
    /\ last.req.body = [day |-> Num(2)]
    /\ last.code = 403
    /\ places = last.before
    /\ Len(suggestions) > 0

\* an authorized, well-formed PUT or DELETE of a stop that is not stored
UnknownStopAddressed ==
    /\ last.handler \in {"itinerary/[id]", "itinerary/[id].v1"}
    /\ last.req.method \in {"PUT", "DELETE"}
    /\ IF last.handler = "itinerary/[id].v1" THEN isAdminAuthorized(last.req.hdr)
       ELSE GateHolds(last)
    /\ last.req.id # NoId
    /\ ~ExistedBefore(last.req.id)
    /\ last.req.method = "PUT" =>
           (Cardinality(DOMAIN last.req.body) > 0 /\ PrismaAcceptsUpdate(last.req.body))

\* an authorized status PATCH naming a legal value for a suggestion not stored
UnknownSuggestionAddressed ==
    /\ \/ AnsweredStatusPatch
       \/ Answered("suggestions/[id].v1", "PATCH")
    /\ CallerAuthorized
    /\ last.req.id # NoId
    /\ ~SuggestionExistedBefore(last.req.id)
    /\ IsString(last.req.body.status)
    /\ IsCasingOfLegal(last.req.body.status.cs)

\* C16: an authorized, valid update or delete of a stop, or status update of
\* a suggestion, naming an identifier that is not stored is answered 404 and
\* leaves the store unchanged, in every variant of the routes.
C16_UnknownIdNotFound ==
    /\ UnknownStopAddressed => (last.code = 404 /\ places = last.before)
    /\ UnknownSuggestionAddressed => (last.code = 404 /\ suggestions = last.before)

-----------------------------------------------------------------------------
(* Properties of the status PATCH (checked under SpecSuggestions) *)

AnsweredAnyStatusPatch ==
    \/ AnsweredStatusPatch
    \/ Answered("suggestions/[id].v1", "PATCH")

EmptyStatus(v) == v = Absent \/ v = Token(<<>>)

\* C17: a status PATCH from an authorized caller whose status is the empty
\* string or absent is answered 400 with a missing-field message: no value
\* is put in its place and no stored suggestion changes.
C17_EmptyStatusRejected ==
    (AnsweredAnyStatusPatch /\ CallerAuthorized /\ EmptyStatus(last.req.body.status)) =>
        /\ last.code = 400
        /\ last.msg \in {MsgStatusMissing, MsgIdStatusMissing, MsgIdRequired}
        /\ (last.msg = MsgIdRequired) => (last.req.id = NoId)
        /\ suggestions = last.before

\* an approved suggestion patched with the empty string by an authorized
\* caller: 400, and it is still Approved
C17_Witness ==
    /\ Answered("suggestions/[id]", "PATCH")
    /\ isAdminOrTrustedAuthorized(last.req.hdr)
    /\ SuggestionExistedBefore(last.req.id)
    /\ last.req.body.status = Token(<<>>)
    /\ last.code = 400
    /\ StoredStatus(last.req.id) = Approved

\* anything but one of the three legal values in some casing
MalformedStatus(v) == ~(IsString(v) /\ IsCasingOfLegal(v.cs))

\* C18: every malformed status of a PATCH body from an authorized caller,
\* a value that is not a string included, is answered 400 and never 500, and
\* no stored suggestion changes.
C18_MalformedStatusIs400 ==
    (/\ AnsweredAnyStatusPatch
     /\ CallerAuthorized
     /\ last.req.id # NoId
     /\ MalformedStatus(last.req.body.status)) =>
        (last.code = 400 /\ suggestions = last.before)

\* C19: there is no transition graph: whatever the status of a stored
\* suggestion, an authorized PATCH naming one of the three legal values is
\* answered 200 and the suggestion has that status afterwards.
C19_AnyTransition ==
    (/\ AnsweredAnyStatusPatch
     /\ CallerAuthorized
     /\ SuggestionExistedBefore(last.req.id)
     /\ IsString(last.req.body.status)
     /\ IsCasingOfLegal(last.req.body.status.cs)) =>
        /\ last.code = 200
        /\ StoredStatus(last.req.id) = LegalOf(last.req.body.status.cs)

-----------------------------------------------------------------------------
(* The predicates evaluated between requests that change the store *)

NextPure ==
    \/ NextAuth
    \/ SubmitRequest
    \/ PostRequest
    \/ DeleteRequest

SpecPure == InitServer /\ [][NextPure]_vars

-----------------------------------------------------------------------------
(* Properties of the predicates (checked under SpecPure) *)

\* the recorded results are those the predicates give in the current state
SameResult ==
    check.evaluated =>
        /\ check.isAdmin = isAuthorized(check.hdr, "admin")
        /\ check.isTrusted = isAuthorized(check.hdr, "trusted")
        /\ check.isEither = isAdminOrTrustedAuthorized(check.hdr)

\* a step that evaluates the predicates changes nothing else, and no step
\* changes the configuration
EvaluationOnly ==
    /\ env' = env
    /\ (check' # check) =>
           UNCHANGED <<places, nextPlaceId, suggestions, nextSuggestionId, last,
                       clientVars>>

-----------------------------------------------------------------------------
(* Diagnostics of the predicates (checked under SpecAuth) *)

\* C21: when the secret a predicate compares against is unset, the predicate
\* returns false and writes a diagnostic for operators; this holds for
\* isAuthorized in both roles and for isAdminOrTrustedAuthorized.
C21_UnsetSecretDiagnosed ==
    check.evaluated =>
        /\ Falsy(env.NEXT_PUBLIC_ADMIN_SECRET) =>
               (~check.isAdmin /\ check.diagAdmin # {})
        /\ Falsy(env.NEXT_PUBLIC_TRUSTED_SECRET) =>
               (~check.isTrusted /\ check.diagTrusted # {})
        /\ (Falsy(env.ADMIN_SECRET_KEY) /\ Falsy(env.TRUSTED_USER_KEY)) =>
               (~check.isEither /\ check.diagEither # {})

-----------------------------------------------------------------------------
(* Client: useApiFetcher.safeFetch *)

maxRetries == 3

\* what one `fetch` can give against this API: a JSON response of the
\* handlers, or a rejected promise (status 0)
MsgFailedToFetch == "Failed to fetch"
MsgBadRequest == "bad request"
MsgAuthorizationFailed ==
    "Authorization Failed (403): Invalid secret or insufficient privileges."

FetchResponse(status, body) == [body |-> body, status |-> status]

ApiResponses ==
    {FetchResponse(200, "data"), FetchResponse(400, MsgBadRequest),
     FetchResponse(403, MsgForbidden), FetchResponse(500, MsgServerError),
     FetchResponse(0, MsgFailedToFetch)}

\* response.ok
ResponseOk(r) == r.status >= 200 /\ r.status <= 299

\* the error thrown inside the try block for a response that is not returned
ThrownFor(r, requiresAuth) ==
    IF r.status = 403 /\ requiresAuth THEN MsgAuthorizationFailed ELSE r.body

\* the delay that starts at two seconds
RetryDelayDoubled(i) == (2 ^ (i + 1)) * 1000

\* Math.pow(2, i) * 1000
RetryDelay(i) == (2 ^ i) * 1000

\* safeFetch(endpoint, options, requiresAuth) up to the first `await fetch`
CallSafeFetch ==
    /\ call.pc = "idle"
    /\ \E requiresAuth \in BOOLEAN :
           call' = [call EXCEPT !.pc = "fetch", !.i = 0, !.requiresAuth = requiresAuth]
    /\ UNCHANGED <<env, check, norm, places, nextPlaceId, suggestions,
                   nextSuggestionId, last, session, panel>>

\* one pass of the loop body: the fetch settles, then return, throw to the
\* caller, or start the timer of the catch block
Attempt ==
    /\ call.pc = "fetch"
    /\ call.i < maxRetries
    /\ \E r \in ApiResponses :
           LET got == [call EXCEPT !.responses = Append(@, r)] IN
           call' = IF ResponseOk(r)
                   THEN [got EXCEPT !.pc = "done", !.outcome = "resolved",
                                    !.value = r.body]
                   ELSE IF call.i = maxRetries - 1
                   THEN [got EXCEPT !.pc = "done", !.outcome = "rejected",
                                    !.value = ThrownFor(r, call.requiresAuth)]
                   ELSE [got EXCEPT !.pc = "sleep",
                                    !.delays = Append(@, RetryDelay(call.i))]
    /\ UNCHANGED <<env, check, norm, places, nextPlaceId, suggestions,
                   nextSuggestionId, last, session, panel>>

\* the timer of the catch block fires: `i++` and the next pass
Wake ==
    /\ call.pc = "sleep"
    /\ call' = [call EXCEPT !.pc = "fetch", !.i = @ + 1]
    /\ UNCHANGED <<env, check, norm, places, nextPlaceId, suggestions,
                   nextSuggestionId, last, session, panel>>

InitFetch ==
    /\ env = EnvConfig("A", "T", "A", "T")
    /\ check = NoCheck
    /\ InitStore

NextFetch ==
    \/ CallSafeFetch
    \/ Attempt
    \/ Wake

\* a fetch settles and a timer fires
SpecFetch ==
    InitFetch /\ [][NextFetch]_vars /\ WF_vars(Attempt) /\ WF_vars(Wake)

-----------------------------------------------------------------------------
(* Properties of safeFetch (checked under SpecFetch) *)

Attempts == Len(call.responses)

\* C22: a 403 answer to a request that required authorization is never
\* retried: it is the last attempt of the call, and the call has rejected.
C22_ForbiddenNotRetried ==
    \A k \in 1 .. Attempts :
        (call.requiresAuth /\ call.responses[k].status = 403) =>
            /\ k = Attempts
            /\ call.pc = "done"
            /\ call.outcome = "rejected"

FetchSafe ==
    /\ Attempts <= 3
    /\ \A k \in 1 .. Attempts - 1 : ~ResponseOk(call.responses[k])
    /\ Len(call.delays) <= 2
    /\ \A k \in 1 .. Len(call.delays) : call.delays[k] = k * 1000
    /\ Len(call.delays) = IF call.pc = "done" THEN Attempts - 1 ELSE Attempts
    /\ (call.outcome = "resolved") =>
           /\ ResponseOk(call.responses[Attempts])
           /\ call.value = call.responses[Attempts].body
    /\ (call.outcome = "rejected") =>
           /\ Attempts = 3
           /\ ~ResponseOk(call.responses[3])
           /\ call.value = ThrownFor(call.responses[3], call.requiresAuth)
    /\ (call.pc = "done") <=> (call.outcome # Null)

\* C27: safeFetch terminates after at most 3 attempts: it resolves with the
\* body of the first attempt that gets an OK response and sends nothing after
\* it, waits 1 s then 2 s between failed attempts, and rejects with the error
\* of the third attempt when all three fail.
C27_AtMostThreeAttempts ==
    []FetchSafe /\ ((call.pc # "idle") ~> (call.pc = "done"))

\* three failed attempts with different errors, two waits, rejected
C27_Witness ==
    /\ call.outcome = "rejected"
    /\ call.delays = <<1000, 2000>>
    /\ call.responses[1].status = 0
    /\ call.responses[2].status = 400
    /\ call.responses[3].status = 500
    /\ call.value = MsgServerError

-----------------------------------------------------------------------------
(* Reading the itinerary and submitting suggestions *)

AnsweredList == Answered("itinerary", "GET")

\* the day a list request asks for, as a number; 0 when it asks for none
RequestedDay ==
    IF QueryGiven(last.req.query) THEN parseInt(last.req.query.cs) ELSE Num(0)

DayAccepted == ~QueryGiven(last.req.query) \/ (~RequestedDay.nan /\ RequestedDay.v >= 1)

\* C23: the list of the itinerary is public: a GET with no day parameter or
\* a valid one is answered 200 with the stored stops whatever the header
\* (none, a wrong secret, a right one), and no GET changes the store.
C23_ListPublic ==
    AnsweredList =>
        /\ places = last.before
        /\ DayAccepted =>
              /\ last.code = 200
              /\ last.result \subseteq last.before
              /\ ~QueryGiven(last.req.query) => last.result = last.before

C23_Witness ==
    /\ AnsweredList
    /\ last.req.hdr = "X"
    /\ last.req.query = Absent
    /\ last.code = 200
    /\ last.result = places
    /\ places # {}

FieldEmpty(x) == x = Absent \/ x = Str("")

FieldsMissing(b) == FieldEmpty(b.userId) \/ FieldEmpty(b.title) \/ FieldEmpty(b.text)

\* C24: a POST of a suggestion whose userId, title or text is missing or
\* empty is answered 400 and creates no record.
C24_IncompleteSuggestionRejected ==
    (AnsweredSubmit /\ FieldsMissing(last.req.body)) =>
        /\ last.code = 400
        /\ suggestions = last.before

C24_Witness ==
    /\ AnsweredSubmit
    /\ last.req.body.title = Str("")
    /\ last.code = 400
    /\ suggestions = last.before
    /\ suggestions # <<>>

RejectedDays == {QStr(<<"0">>), QStr(<<"-", "2">>), QStr(<<"a", "b", "c">>)}

\* C25: a GET with a day parameter that parses to an integer of at least 1
\* is answered with the stops of that day only; a day parameter that is
\* present and parses to NaN or to less than 1 ("0", "-2", "abc") is
\* answered 400 with no stop read.
C25_DayFilter ==
    (AnsweredList /\ QueryGiven(last.req.query)) =>
        /\ DayAccepted =>
              /\ last.code = 200
              /\ last.result = {p \in last.before : p.day = RequestedDay.v}
        /\ ~DayAccepted => (last.code = 400 /\ last.result = {})
        /\ last.req.query \in RejectedDays => last.code = 400

C25_Witness ==
    /\ AnsweredList
    /\ last.req.query = QStr(<<"1">>)
    /\ last.code = 200
    /\ last.result # {}
    /\ last.result # places
    /\ \A p \in last.result : p.day = 1

SupportedVerbs(handler) ==
    CASE handler \in {"suggestions/[id]", "suggestions/[id].v1"} -> {"PATCH"}
      [] handler = "suggestions.v1" -> {"GET", "POST"}
      [] handler = "suggestions" -> {"GET", "POST", "PATCH"}
      [] handler = "itinerary" -> {"GET", "POST"}
      [] OTHER -> {"PUT", "DELETE"}

UnsupportedVerb ==
    /\ last.handler # "none"
    /\ last.req.method \notin SupportedVerbs(last.handler)

\* C26: a request with a verb its route does not support is answered 405
\* and leaves the store as it was; the suggestion-status route supports
\* PATCH only and answers 405 to every other verb, with a valid secret or
\* without one.
C26_UnsupportedVerbIs405 ==
    UnsupportedVerb =>
        /\ last.code = 405
        /\ suggestions = last.before

-----------------------------------------------------------------------------
(* Client: App and LoginScreen *)

MsgWrongSecret == "wrong secret"

\* what the user may type in the password field
TypedSecrets == {"", "A", "T", "X"}

\* `if (role === 'guest' && !authSecret) return <LoginScreen ... />`
LoginShown ==
    session.role = "guest" /\ (session.authSecret = Null \/ session.authSecret = "")

\* the comparison that takes every secret for the admin's
RoleForAny(secret) == "admin"

\* `secret === ADMIN_SECRET` ... `else if (secret === TRUSTED_SECRET)`
RoleFor(secret) ==
    IF secret = AdminSecret THEN "admin"
    ELSE IF secret = TrustedSecret THEN "trusted"
    ELSE Null

UnchangedButSession ==
    UNCHANGED <<env, check, norm, places, nextPlaceId, suggestions,
                nextSuggestionId, last, call, panel>>

\* onChange of the password field; the field is disabled while loading
TypeSecret ==
    /\ LoginShown
    /\ ~session.loading
    /\ \E s \in TypedSecrets \ {session.secret} :
          session' = [session EXCEPT !.secret = s, !.op = "type"]
    /\ UnchangedButSession

\* LoginScreen.handleSubmit: the field is `required` and the button is
\* disabled while loading; the check itself runs 500 ms later
handleSubmit ==
    /\ LoginShown
    /\ ~session.loading
    /\ session.secret # ""
    /\ session' = [session EXCEPT !.loading = TRUE, !.message = Null,
                                   !.timers = Append(@, session.secret),
                                   !.op = "submit"]
    /\ UnchangedButSession

\* the setTimeout callback, with App.setRoleAndSecret when a secret matches;
\* the login screen unmounts when the role is set
LoginTimeout ==
    /\ session.timers # <<>>
    /\ LET secret == Head(session.timers)
           newRole == RoleFor(secret)
       IN  session' =
             IF newRole # Null
             THEN [GuestSession EXCEPT !.role = newRole, !.authSecret = secret,
                                       !.storedRole = newRole,
                                       !.storedSecret = secret,
                                       !.timers = Tail(session.timers),
                                       !.op = "timeout", !.checked = secret]
             ELSE [session EXCEPT !.message = MsgWrongSecret,
                                  !.loading = FALSE,
                                  !.timers = Tail(@),
                                  !.op = "timeout", !.checked = secret]
    /\ UnchangedButSession

\* App.handleLogout, behind the log-out button of the main screen
handleLogout ==
    /\ ~LoginShown
    /\ session' = [GuestSession EXCEPT !.op = "logout"]
    /\ UnchangedButSession

\* the client's build: the NEXT_PUBLIC_* pair, set, empty or not set
ClientEnvConfigs ==
    {EnvConfig(a, t, Undef, Undef) : a \in EnvValues, t \in EnvValues}

InitSession ==
    /\ env \in ClientEnvConfigs
    /\ check = NoCheck
    /\ InitStore

NextSession == TypeSecret \/ handleSubmit \/ LoginTimeout \/ handleLogout

SpecSession == InitSession /\ [][NextSession]_vars

\* C28: starting as a guest with no secret, through every sequence of login
\* submissions and logouts: the role is admin only with the admin secret as
\* authSecret, trusted only with the trusted secret, a submission of any
\* other secret leaves the role guest and the secret null, and a logout
\* leaves the role guest, the secret null and nothing in localStorage.
C28_RoleFollowsSecret ==
    /\ session.role \in {"guest", "admin", "trusted"}
    /\ session.role = "admin" => session.authSecret = AdminSecret
    /\ session.role = "trusted" => session.authSecret = TrustedSecret
    /\ (session.op = "timeout" /\ session.checked \notin {AdminSecret, TrustedSecret}) =>
          (session.role = "guest" /\ session.authSecret = Null)
    /\ session.op = "logout" =>
          /\ session.role = "guest"
          /\ session.authSecret = Null
          /\ session.storedRole = Null
          /\ session.storedSecret = Null

C28_Witness ==
    /\ session.op = "timeout"
    /\ session.checked = "T"
    /\ session.role = "trusted"
    /\ session.authSecret = "T"
    /\ AdminSecret = "A"

-----------------------------------------------------------------------------
(* Client: AdminPanel, its two state variables and its two effects *)

Tabs == {"form", "manager", "inbox"}

\* the stops listed by ItineraryManager, each with an Edit button
MaxEditable == 3
PlaceOf(n) == IF n = 0 THEN Null ELSE "place " \o ToString(n)

EditableIds == 1 .. MaxEditable

UnchangedButPanel ==
    UNCHANGED <<env, check, norm, places, nextPlaceId, suggestions,
                nextSuggestionId, last, call, session>>

\* every effect of the last commit has run and no update waits for a render
Quiescent ==
    /\ panel.due = {}
    /\ panel.queuedTab = NoUpdate
    /\ panel.queuedPlace = NoUpdate

\* the effect that never clears
ShouldClearNever(activeTab) == FALSE

\* `if (activeTab !== 'form')`
ShouldClear(activeTab) == activeTab # "form"

\* `if (editingPlace)`
ShouldShowForm(editingPlace) == editingPlace # Null

\* onClick of a tab button: setActiveTab(tab)
selectTab ==
    /\ Quiescent
    /\ \E tab \in Tabs :
          panel' = [panel EXCEPT !.queuedTab = tab, !.event = "tab",
                                 !.target = tab]
    /\ UnchangedButPanel

\* onClick of Edit in ItineraryManager: setEditingPlace(place)
editPlace ==
    /\ Quiescent
    /\ panel.activeTab = "manager"
    /\ \E n \in EditableIds :
          panel' = [panel EXCEPT !.queuedPlace = PlaceOf(n), !.event = "edit",
                                 !.target = PlaceOf(n)]
    /\ UnchangedButPanel

\* ItineraryForm, Cancel (shown while editing): setEditingPlace(null)
cancelEdit ==
    /\ Quiescent
    /\ panel.activeTab = "form"
    /\ panel.editingPlace # Null
    /\ panel' = [panel EXCEPT !.queuedPlace = Null, !.event = "cancel",
                               !.target = Null]
    /\ UnchangedButPanel

\* ItineraryForm.handleSubmit while editing: the PUT is sent
submitEdit ==
    /\ Quiescent
    /\ panel.activeTab = "form"
    /\ panel.editingPlace # Null
    /\ ~panel.saving
    /\ panel' = [panel EXCEPT !.saving = TRUE, !.event = "submit",
                               !.target = Null]
    /\ UnchangedButPanel

\* the rest of handleSubmit, whenever the PUT is answered, the form shown or
\* not: setEditingPlace(null) after a success, only a message after a failure
saveAnswered ==
    /\ panel.saving
    /\ \E ok \in BOOLEAN :
          panel' = [panel EXCEPT !.saving = FALSE,
                                 !.queuedPlace = IF ok THEN Null ELSE @,
                                 !.event = IF ok THEN "saved" ELSE "failed",
                                 !.target = Null]
    /\ UnchangedButPanel

\* the next render and commit: the queued updates become the state, and an
\* effect is due when its dependency changed
Render ==
    /\ panel.due = {}
    /\ panel.queuedTab # NoUpdate \/ panel.queuedPlace # NoUpdate
    /\ LET newTab == IF panel.queuedTab # NoUpdate THEN panel.queuedTab
                     ELSE panel.activeTab
           newPlace == IF panel.queuedPlace # NoUpdate THEN panel.queuedPlace
                       ELSE panel.editingPlace
       IN  panel' = [panel EXCEPT
                       !.activeTab = newTab,
                       !.editingPlace = newPlace,
                       !.queuedTab = NoUpdate,
                       !.queuedPlace = NoUpdate,
                       !.due = {d \in {"editingPlace"} : newPlace # panel.editingPlace}
                               \cup {d \in {"activeTab"} : newTab # panel.activeTab}]
    /\ UnchangedButPanel

\* useEffect(..., [editingPlace])
EffectEditingPlace ==
    /\ "editingPlace" \in panel.due
    /\ panel' = [panel EXCEPT
                   !.due = @ \ {"editingPlace"},
                   !.queuedTab = IF ShouldShowForm(panel.editingPlace)
                                 THEN "form" ELSE @]
    /\ UnchangedButPanel

\* useEffect(..., [activeTab])
EffectActiveTab ==
    /\ "activeTab" \in panel.due
    /\ panel' = [panel EXCEPT
                   !.due = @ \ {"activeTab"},
                   !.queuedPlace = IF ShouldClear(panel.activeTab)
                                   THEN Null ELSE @]
    /\ UnchangedButPanel

InitPanel ==
    /\ env = EnvConfig("A", "T", "A", "T")
    /\ check = NoCheck
    /\ InitStore

NextPanel ==
    \/ selectTab
    \/ editPlace
    \/ cancelEdit
    \/ submitEdit
    \/ saveAnswered
    \/ Render
    \/ EffectEditingPlace
    \/ EffectActiveTab

SpecPanel == InitPanel /\ [][NextPanel]_vars

\* C29: once the effects of the admin panel have run, a place being edited
\* implies the form tab is the active one: after a place was chosen for
\* editing on another tab the form tab is active and the place is still
\* selected, and after a switch to a tab other than the form no place is
\* selected; in whichever order the two effects run.
C29_EditingImpliesForm ==
    Quiescent =>
        /\ panel.editingPlace # Null => panel.activeTab = "form"
        /\ panel.event = "edit" =>
              (panel.activeTab = "form" /\ panel.editingPlace = panel.target)
        /\ (panel.event = "tab" /\ panel.target # "form") =>
              (panel.activeTab = panel.target /\ panel.editingPlace = Null)

C29_Witness ==
    /\ Quiescent
    /\ panel.event = "edit"
    /\ panel.activeTab = "form"
    /\ panel.editingPlace = PlaceOf(2)

=============================================================================
